---- MODULE Spec2Model ----
(***************************************************************************)
(* Stock insights assistant: the query-orchestration pipeline              *)
(* (app/core/orchestrator.py), the Finnhub client with its retry layer     *)
(* (app/services/finnhub.py) and the OpenAI client's parse / format calls  *)
(* (app/services/openai_client.py).                                        *)
(*                                                                         *)
(* One behaviour is one call of a public operation.  The remote calls      *)
(* (provider quote / company_profile2, the classification call and the     *)
(* generation call) are the points where the environment chooses an        *)
(* outcome; the code between two remote calls is one atomic step.          *)
(***************************************************************************)
EXTENDS Integers, Sequences, FiniteSets, TLC

\* ---------------------------------------------------------------- constants

\* finnhub.py: rate limiting constants
MAX_RETRIES == 2
RETRY_DELAY_BASE == 1

\* orchestrator.py: limit=3 passed by both movers handlers
HANDLER_LIMIT == 3

\* Bounds of the model.
\* MaxBatch: each industry's symbol list is cut to its first MaxBatch tickers.
MaxBatch == 3
\* MaxSymbols: longest symbols list handed over by the parser / the caller.
MaxSymbols == 3
\* MaxLimit: largest limit passed to get_top_movers_by_industry directly.
MaxLimit == 3

\* ------------------------------------------------------------ value helpers

\* Optional[T]: None is the empty sequence, a present value a one-element one.
None == <<>>
Some(x) == <<x>>
IsNone(o) == o = <<>>
Val(o) == o[1]

Min(a, b) == IF a < b THEN a ELSE b

Take(seq, n) == SubSeq(seq, 1, Min(n, Len(seq)))

Range(seq) == {seq[i] : i \in 1..Len(seq)}

RECURSIVE Pow2(_)
Pow2(n) == IF n = 0 THEN 1 ELSE 2 * Pow2(n - 1)

RECURSIVE Sum(_)
Sum(seq) == IF seq = <<>> THEN 0 ELSE Head(seq) + Sum(Tail(seq))

Reverse(seq) == [i \in 1..Len(seq) |-> seq[Len(seq) + 1 - i]]

\* str.upper() on the ticker strings of the model
Upper(s) ==
    CASE s = "aapl" -> "AAPL"
      [] s = "tsla" -> "TSLA"
      [] OTHER -> s

\* str.lower() on the industry strings of the model
Lower(s) ==
    CASE s = "Energy" -> "energy"
      [] s = "TECHNOLOGY" -> "technology"
      [] OTHER -> s

\* JSON values of a provider payload
Null == [t |-> "null"]
Num(n) == [t |-> "num", v |-> n]
Str(x) == [t |-> "str", s |-> x]
Dict(f) == [t |-> "dict", d |-> f]
EmptyDict == Dict(<<>>)

\* dict.get(k) / dict.get(k, default)
Get(p, k, default) == IF k \in DOMAIN p.d THEN p.d[k] ELSE default

\* Python truthiness of a JSON value
Truthy(v) ==
    CASE v.t = "null" -> FALSE
      [] v.t = "num" -> v.v # 0
      [] v.t = "str" -> v.s # ""
      [] v.t = "dict" -> DOMAIN v.d # {}

\* pydantic: a required float field accepts a number only
IsFloat(v) == v.t = "num"
\* pydantic: an Optional[float] field accepts a number or None
IsOptFloat(v) == v.t \in {"num", "null"}

\* Python dict kept as a sequence of [key, value] in insertion order.
DictKeys(d) == [i \in 1..Len(d) |-> d[i].key]
DictHas(d, k) == \E i \in 1..Len(d) : d[i].key = k
DictGet(d, k) == (CHOOSE i \in 1..Len(d) : d[i].key = k)
DictVal(d, k) == d[DictGet(d, k)].value
\* d[k] = v: an existing key keeps its place, a new key goes last
DictSet(d, k, v) ==
    IF DictHas(d, k)
    THEN [i \in 1..Len(d) |-> IF d[i].key = k THEN [key |-> k, value |-> v] ELSE d[i]]
    ELSE Append(d, [key |-> k, value |-> v])

\* ------------------------------------------------------------ reference data

\* finnhub.py INDUSTRY_SYMBOLS
INDUSTRY_SYMBOLS ==
    [technology |-> <<"AAPL", "MSFT", "GOOGL", "GOOG", "AMZN", "META", "NVDA",
                      "TSLA", "NFLX", "CRM", "ORCL", "ADBE", "INTC", "AMD",
                      "CSCO", "IBM", "NOW", "SNOW", "PLTR", "ZM", "UBER", "LYFT">>,
     finance |-> <<"JPM", "BAC", "WFC", "C", "GS", "MS", "BLK", "SCHW", "AXP",
                   "COF", "PYPL", "SQ", "V", "MA">>,
     healthcare |-> <<"JNJ", "UNH", "PFE", "ABT", "TMO", "ABBV", "LLY", "MRK",
                      "BMY", "GILD", "AMGN", "BIIB", "REGN">>,
     energy |-> <<"XOM", "CVX", "COP", "SLB", "EOG", "MPC", "VLO", "PSX">>,
     consumer |-> <<"WMT", "TGT", "HD", "LOW", "NKE", "SBUX", "MCD", "YUM">>]

\* (mutant of IndustryLookup: an unknown industry falls back to technology)
IndustryLookupDefault(industry) ==
    IF Lower(industry) \in DOMAIN INDUSTRY_SYMBOLS
    THEN Take(INDUSTRY_SYMBOLS[Lower(industry)], MaxBatch)
    ELSE Take(INDUSTRY_SYMBOLS["technology"], MaxBatch)

\* INDUSTRY_SYMBOLS.get(industry.lower(), []), each list cut to MaxBatch
IndustryLookup(industry) ==
    IF Lower(industry) \in DOMAIN INDUSTRY_SYMBOLS
    THEN Take(INDUSTRY_SYMBOLS[Lower(industry)], MaxBatch)
    ELSE <<>>

\* models.py enums
Intents == {"top_gainers", "top_losers", "quote", "compare", "unsupported"}
Industries == {"technology", "finance", "healthcare", "energy", "consumer"}
Directions == {"gainers", "losers"}


\* ---------------------------------------------------------------- the state

VARIABLES
    pc,         \* "idle" | "parse" | "call" | "ret" | "generate" | "done"
    entry,      \* the public operation this behaviour calls
    parsed,     \* what parse_query returned
    intent,     \* process_query: intent
    industry,   \* handler / get_top_movers_by_industry: industry
    symbols,    \* process_query: symbols; _handle_compare: symbols
    direction,  \* get_top_movers_by_industry: direction
    limit,      \* get_top_movers_by_industry: limit
    batch,      \* get_quote_multiple: symbols
    idx,        \* get_quote_multiple: position of the loop in batch
    results,    \* get_quote_multiple: results
    quote,      \* _handle_quote: quote
    profile,    \* _handle_quote: profile
    profiles,   \* _handle_compare: profiles
    pidx,       \* _handle_compare: position of the profile loop in symbols
    movers,     \* what get_top_movers_by_industry returned
    data,       \* the payload handed to format_response
    api,        \* the provider function under _call_with_retry
    sym,        \* its symbol argument
    site,       \* who called get_quote / get_company_profile
    attempt,    \* _call_with_retry: attempt
    outcomes,   \* _call_with_retry: what each invocation of func did
    sleeps,     \* _call_with_retry: the delays slept, in order
    payload,    \* _call_with_retry: the value func returned
    cwr,        \* _call_with_retry: how it ended
    ret,        \* get_quote / get_company_profile: how it ended
    slept,      \* seconds slept since the operation was called
    fetches,    \* every get_quote / get_company_profile call made, in order
    returns,    \* how each of them ended, in order
    genCalls,   \* generation calls (responses.create) made
    parseCalls, \* classification calls (responses.parse) made
    parseOutcome, \* what the classification call did
    fallbacks,  \* fallback formatters entered
    status,     \* "running" | "returned" | "raised"
    exc,        \* the exception raised to the caller
    envelope    \* the QueryResponse returned by process_query

vars == <<pc, entry, parsed, intent, industry, symbols, direction, limit, batch,
          idx, results, quote, profile, profiles, pidx, movers, data, api, sym,
          site, attempt, outcomes, sleeps, payload, cwr, ret, slept, fetches,
          returns, genCalls, parseCalls, parseOutcome, fallbacks, status, exc, envelope>>

\* The state as one record, so that the code's steps compose as functions.
Cur ==
    [pc |-> pc, entry |-> entry, parsed |-> parsed, intent |-> intent,
     industry |-> industry, symbols |-> symbols, direction |-> direction,
     limit |-> limit, batch |-> batch, idx |-> idx, results |-> results,
     quote |-> quote, profile |-> profile, profiles |-> profiles, pidx |-> pidx,
     movers |-> movers, data |-> data, api |-> api, sym |-> sym, site |-> site,
     attempt |-> attempt, outcomes |-> outcomes, sleeps |-> sleeps,
     payload |-> payload, cwr |-> cwr, ret |-> ret, slept |-> slept,
     fetches |-> fetches, returns |-> returns, genCalls |-> genCalls, parseCalls |-> parseCalls,
     parseOutcome |-> parseOutcome,
     fallbacks |-> fallbacks, status |-> status, exc |-> exc,
     envelope |-> envelope]

Become(n) ==
    /\ pc' = n.pc /\ entry' = n.entry /\ parsed' = n.parsed
    /\ intent' = n.intent /\ industry' = n.industry /\ symbols' = n.symbols
    /\ direction' = n.direction /\ limit' = n.limit /\ batch' = n.batch
    /\ idx' = n.idx /\ results' = n.results /\ quote' = n.quote
    /\ profile' = n.profile /\ profiles' = n.profiles /\ pidx' = n.pidx
    /\ movers' = n.movers /\ data' = n.data /\ api' = n.api /\ sym' = n.sym
    /\ site' = n.site /\ attempt' = n.attempt /\ outcomes' = n.outcomes
    /\ sleeps' = n.sleeps /\ payload' = n.payload /\ cwr' = n.cwr
    /\ ret' = n.ret /\ slept' = n.slept /\ fetches' = n.fetches
    /\ returns' = n.returns
    /\ genCalls' = n.genCalls /\ parseCalls' = n.parseCalls
    /\ parseOutcome' = n.parseOutcome
    /\ fallbacks' = n.fallbacks /\ status' = n.status /\ exc' = n.exc
    /\ envelope' = n.envelope

\* A response text: which text it is and the values formatted into it.
Text(kind, strs, nums) == [kind |-> kind, strs |-> strs, nums |-> nums]
NoText == Text("", <<>>, <<>>)

\* models.py QueryResponse
QueryResponse(response, syms, top_gainers) ==
    [response |-> response, symbols |-> syms, top_gainers |-> top_gainers]
NoEnvelope == QueryResponse(NoText, <<>>, None)

NoParsed == [shape |-> "unset", intent |-> "", industry |-> None,
             symbols |-> <<>>, direction |-> None]
NoData == [t |-> "dict", keys |-> <<>>, movers |-> <<>>, symbol |-> "",
           quote |-> None, profile |-> None, cmp |-> <<>>]
NoRet == [raised |-> FALSE, value |-> None]

Init ==
    /\ pc = "idle" /\ entry = "" /\ parsed = NoParsed /\ intent = ""
    /\ industry = "" /\ symbols = <<>> /\ direction = "" /\ limit = 0
    /\ batch = <<>> /\ idx = 0 /\ results = <<>> /\ quote = None
    /\ profile = None /\ profiles = <<>> /\ pidx = 0 /\ movers = <<>>
    /\ data = NoData /\ api = "" /\ sym = "" /\ site = "" /\ attempt = 0
    /\ outcomes = <<>> /\ sleeps = <<>> /\ payload = Null /\ cwr = ""
    /\ ret = NoRet /\ slept = 0 /\ fetches = <<>> /\ returns = <<>>
    /\ genCalls = 0
    /\ parseCalls = 0 /\ parseOutcome = "" /\ fallbacks = 0 /\ status = "running" /\ exc = ""
    /\ envelope = NoEnvelope

\* The operation returns to its caller / raises to its caller.
Return(s) == [s EXCEPT !.pc = "done", !.status = "returned"]
Raise(s, e) == [s EXCEPT !.pc = "done", !.status = "raised", !.exc = e]
ReturnEnvelope(s, env) == Return([s EXCEPT !.envelope = env])

\* ------------------------------------------------- FinnhubClient._call_with_retry

\* _call_with_retry(func, ...) is entered from get_quote / get_company_profile
\* with func = self._client.quote / self._client.company_profile2 and
\* symbol.upper() as its argument.
StartCall(s, fn, symbol, who) ==
    [s EXCEPT !.pc = "call", !.api = fn, !.sym = Upper(symbol), !.site = who,
              !.attempt = 0, !.outcomes = <<>>, !.sleeps = <<>>,
              !.payload = Null, !.cwr = "running", !.ret = NoRet,
              !.fetches = Append(@, <<fn, Upper(symbol)>>)]

\* func(*args, **kwargs) is invoked once more
Invoke(s, kind) == [s EXCEPT !.outcomes = Append(@, kind)]

\* time.sleep(delay)
Sleep(s, delay) == [s EXCEPT !.sleeps = Append(@, delay), !.slept = @ + delay]

\* `continue`: the for loop over range(MAX_RETRIES + 1) takes its next attempt,
\* or is exhausted and control reaches the raise after the loop
Continue(s) ==
    IF s.attempt + 1 < MAX_RETRIES + 1
    THEN [s EXCEPT !.attempt = @ + 1]
    ELSE [s EXCEPT !.cwr = "fallthrough"]

\* return func(*args, **kwargs)
OnReturn(s, p) == [s EXCEPT !.cwr = "returned", !.payload = p]

\* (mutant of OnRateLimit: the backoff does not grow with the attempt)
OnRateLimitFixedDelay(s) ==
    IF s.attempt < MAX_RETRIES
    THEN Continue(Sleep(s, RETRY_DELAY_BASE))
    ELSE [s EXCEPT !.cwr = "RateLimitError"]

\* (mutant of OnRateLimit: the backoff starts at twice the base delay)
OnRateLimitLateBackoff(s) ==
    IF s.attempt < MAX_RETRIES
    THEN Continue(Sleep(s, RETRY_DELAY_BASE * Pow2(s.attempt + 1)))
    ELSE [s EXCEPT !.cwr = "RateLimitError"]

\* except FinnhubAPIException with "429" / "rate limit" in its text
OnRateLimit(s) ==
    IF s.attempt < MAX_RETRIES
    THEN Continue(Sleep(s, RETRY_DELAY_BASE * Pow2(s.attempt)))
    ELSE [s EXCEPT !.cwr = "RateLimitError"]

\* except FinnhubAPIException without a rate-limit text: raise
OnApiError(s) == [s EXCEPT !.cwr = "reraised"]

\* (mutant of OnConnectionError: retried whatever the attempt)
OnConnectionErrorAlwaysRetry(s) == Continue(Sleep(s, RETRY_DELAY_BASE))

\* except Exception with "connection" / "timeout" in its text
OnConnectionError(s) ==
    IF s.attempt < MAX_RETRIES
    THEN Continue(Sleep(s, RETRY_DELAY_BASE))
    ELSE [s EXCEPT !.cwr = "reraised"]

\* (mutant of OnOtherError: retried like a connection error)
OnOtherErrorRetried(s) ==
    IF s.attempt < MAX_RETRIES
    THEN Continue(Sleep(s, RETRY_DELAY_BASE))
    ELSE [s EXCEPT !.cwr = "reraised"]

\* except Exception, any other text: raise
OnOtherError(s) == [s EXCEPT !.cwr = "reraised"]


\* One pass of the loop body: func is invoked, and its outcome handled.
\* kind: "ok" (func returned p), "rate_limit", "api_error", "connection", "error"
call_with_retry(s, kind, p) ==
    CASE kind = "ok" -> OnReturn(Invoke(s, kind), p)
      [] kind = "rate_limit" -> OnRateLimit(Invoke(s, kind))
      [] kind = "api_error" -> OnApiError(Invoke(s, kind))
      [] kind = "connection" -> OnConnectionError(Invoke(s, kind))
      [] kind = "error" -> OnOtherError(Invoke(s, kind))

\* ------------------------------------- FinnhubClient.get_quote / get_company_profile

\* What self._client.quote may return.
QuotePayloads ==
    {Null, EmptyDict,
     Dict(("c" :> Null) @@ ("dp" :> Num(1))),
     Dict(("c" :> Num(0)) @@ ("dp" :> Num(0))),
     Dict("c" :> Num(150)),
     Dict(("c" :> Num(150)) @@ ("dp" :> Null)),
     Dict(("c" :> Num(150)) @@ ("dp" :> Num(1)))}

\* What self._client.company_profile2 may return.
ProfilePayloads ==
    {Null, EmptyDict,
     Dict("name" :> Null),
     Dict("name" :> Str("")),
     Dict("name" :> Str("Apple Inc")),
     Dict(("name" :> Str("Apple Inc")) @@ ("marketCapitalization" :> Str("n/a")))}

PayloadsOf(fn) == IF fn = "quote" THEN QuotePayloads ELSE ProfilePayloads

\* models.py StockQuote(...): the float fields must validate.  current_price
\* and change_percent stand for the seven float fields, which are all read
\* with .get(key, 0.0) and validated alike.
StockQuoteValid(q) ==
    /\ IsFloat(Get(q, "c", Num(0)))
    /\ IsFloat(Get(q, "dp", Num(0)))

StockQuote(symbol, q) ==
    [symbol |-> symbol,
     current_price |-> Get(q, "c", Num(0)).v,
     change_percent |-> Get(q, "dp", Num(0)).v]

\* models.py CompanyProfile(...): name: str, market_capitalization: Optional[float]
CompanyProfileValid(q) ==
    /\ Get(q, "name", Str("")).t = "str"
    /\ IsOptFloat(Get(q, "marketCapitalization", Null))

CompanyProfile(symbol, q) ==
    [symbol |-> symbol,
     name |-> Get(q, "name", Str("")).s,
     market_capitalization |->
         IF Get(q, "marketCapitalization", Null).t = "num"
         THEN Some(Get(q, "marketCapitalization", Null).v)
         ELSE None]

\* get_quote / get_company_profile returns v, or raises RateLimitError
Returned(s, v) ==
    [s EXCEPT !.pc = "ret", !.ret = [raised |-> FALSE, value |-> v],
              !.returns = Append(@, [site |-> s.site, fn |-> s.api, sym |-> s.sym,
                                     raised |-> FALSE, value |-> v])]
Reraised(s) ==
    [s EXCEPT !.pc = "ret", !.ret = [raised |-> TRUE, value |-> None],
              !.returns = Append(@, [site |-> s.site, fn |-> s.api, sym |-> s.sym,
                                     raised |-> TRUE, value |-> None])]

\* (mutant of get_quote: a zero current price is taken for a price)
get_quote_no_zero_check(s) ==
    CASE s.cwr = "RateLimitError" -> Reraised(s)
      [] s.cwr = "returned" ->
            IF ~Truthy(s.payload) THEN Returned(s, None)
            ELSE IF Get(s.payload, "c", Null) = Null THEN Returned(s, None)
            ELSE IF ~StockQuoteValid(s.payload) THEN Returned(s, None)
            ELSE Returned(s, Some(StockQuote(s.sym, s.payload)))
      [] OTHER -> Returned(s, None)

\* get_quote, from the return of _call_with_retry on
get_quote(s) ==
    CASE s.cwr = "RateLimitError" -> Reraised(s)          \* except RateLimitError: raise
      [] s.cwr = "returned" ->
            IF ~Truthy(s.payload) THEN Returned(s, None)
            ELSE IF Get(s.payload, "c", Null) = Null THEN Returned(s, None)
            ELSE IF Get(s.payload, "c", Null) = Num(0) THEN Returned(s, None)
            ELSE IF ~StockQuoteValid(s.payload) THEN Returned(s, None)  \* except Exception
            ELSE Returned(s, Some(StockQuote(s.sym, s.payload)))
      [] OTHER -> Returned(s, None)                        \* except Exception

\* get_company_profile, from the return of _call_with_retry on
get_company_profile(s) ==
    CASE s.cwr = "RateLimitError" -> Reraised(s)
      [] s.cwr = "returned" ->
            IF ~Truthy(s.payload) THEN Returned(s, None)
            ELSE IF ~Truthy(Get(s.payload, "name", Null)) THEN Returned(s, None)
            ELSE IF ~CompanyProfileValid(s.payload) THEN Returned(s, None)
            ELSE Returned(s, Some(CompanyProfile(s.sym, s.payload)))
      [] OTHER -> Returned(s, None)

\* The loop goes on, or _call_with_retry has ended and its caller takes over.
AfterAttempt(s) ==
    IF s.cwr = "running" THEN s
    ELSE IF s.api = "quote" THEN get_quote(s)
    ELSE get_company_profile(s)

\* The locals of a finished get_quote / get_company_profile call are gone.
EndCall(s) ==
    [s EXCEPT !.api = "", !.sym = "", !.site = "", !.attempt = 0,
              !.outcomes = <<>>, !.sleeps = <<>>, !.payload = Null,
              !.cwr = "", !.ret = NoRet]

\* The provider call under _call_with_retry, one action per kind of outcome.
FuncReturns ==
    /\ pc = "call"
    /\ \E p \in PayloadsOf(api) : Become(AfterAttempt(call_with_retry(Cur, "ok", p)))

FuncRateLimited ==
    /\ pc = "call"
    /\ Become(AfterAttempt(call_with_retry(Cur, "rate_limit", Null)))

FuncApiError ==
    /\ pc = "call"
    /\ Become(AfterAttempt(call_with_retry(Cur, "api_error", Null)))

FuncConnectionError ==
    /\ pc = "call"
    /\ Become(AfterAttempt(call_with_retry(Cur, "connection", Null)))

FuncOtherError ==
    /\ pc = "call"
    /\ Become(AfterAttempt(call_with_retry(Cur, "error", Null)))


\* --------------------------------------------------- OpenAIClient.format_response

\* The payloads the handlers build: a Python dict with its keys in order.
MoversData(ms) ==
    [NoData EXCEPT !.keys = <<"movers">>, !.movers = ms]
QuoteData(symbol, q, p) ==
    [NoData EXCEPT !.keys = IF IsNone(p) THEN <<"symbol", "quote">>
                            ELSE <<"symbol", "quote", "profile">>,
                   !.symbol = symbol, !.quote = q, !.profile = p]
CompareData(cmp) ==
    [NoData EXCEPT !.keys = DictKeys(cmp), !.cmp = cmp]

\* `for mover in movers` yields the keys of a dict and the items of a list
Iterate(d) == IF d.t = "dict" THEN d.keys ELSE d.movers

\* _fallback_format_movers(movers, industry, direction): mover['symbol'] of a
\* str raises TypeError, and it is raised inside the except clause of
\* _format_movers_response, so it leaves format_response.
FallbackMoversRaises(d) == d.t = "dict" /\ Iterate(d) # <<>>

FallbackMoversText(s) ==
    Text("movers_fallback",
         <<IF s.intent = "top_gainers" THEN "gainers" ELSE "losers", s.industry>>
             \o [i \in 1..Len(s.data.movers) |-> s.data.movers[i].symbol],
         [i \in 1..Len(s.data.movers) |-> s.data.movers[i].change_percent])

\* _format_quote_response: the text built in its except clause
FallbackQuoteText(s) ==
    Text("quote_fallback", <<s.data.symbol>>,
         <<Val(s.data.quote).current_price, Val(s.data.quote).change_percent>>)

\* (mutant of EnvelopeFor: the quote envelope names the upper-cased ticker)
EnvelopeForUpper(s, text) ==
    CASE s.intent \in {"top_gainers", "top_losers"} ->
            QueryResponse(text, [i \in 1..Len(s.movers) |-> s.movers[i].symbol],
                          Some(s.movers))
      [] s.intent = "quote" -> QueryResponse(text, <<Upper(s.symbols[1])>>, None)
      [] s.intent = "compare" -> QueryResponse(text, Take(s.symbols, 2), None)
      [] OTHER -> QueryResponse(text, <<>>, None)

\* The symbols of the envelope a handler returns once it has its text.
EnvelopeFor(s, text) ==
    CASE s.intent \in {"top_gainers", "top_losers"} ->
            QueryResponse(text, [i \in 1..Len(s.movers) |-> s.movers[i].symbol],
                          Some(s.movers))
      [] s.intent = "quote" -> QueryResponse(text, <<s.symbols[1]>>, None)
      [] s.intent = "compare" -> QueryResponse(text, Take(s.symbols, 2), None)
      [] OTHER -> QueryResponse(text, <<>>, None)

\* format_response returned `text`; the handler returns its QueryResponse.
HandlerFinish(s, text) == ReturnEnvelope(s, EnvelopeFor(s, text))

\* (mutant of format_response: the unsupported strategy asks the model too)
format_response_generates(s, fi) ==
    CASE fi = "compare" /\ Len(s.data.keys) < 2 ->
            HandlerFinish(s, Text("compare_unavailable", <<>>, <<>>))
      [] OTHER -> [s EXCEPT !.pc = "generate"]

\* format_response(intent, data, industry), up to its generation call
format_response(s, fi) ==
    CASE fi \in {"top_gainers", "top_losers"} -> [s EXCEPT !.pc = "generate"]
      [] fi = "quote" -> [s EXCEPT !.pc = "generate"]
      [] fi = "compare" ->
            IF Len(s.data.keys) < 2
            THEN HandlerFinish(s, Text("compare_unavailable", <<>>, <<>>))
            ELSE [s EXCEPT !.pc = "generate"]
      [] OTHER -> HandlerFinish(s, Text("capabilities", <<>>, <<>>))

\* The except clause of the three _format_*_response methods
Fallback(s) ==
    CASE s.intent \in {"top_gainers", "top_losers"} ->
            IF FallbackMoversRaises(s.data)
            THEN Raise(s, "TypeError")
            ELSE HandlerFinish(s, FallbackMoversText(s))
      [] s.intent = "quote" -> HandlerFinish(s, FallbackQuoteText(s))
      [] OTHER -> HandlerFinish(s, Text("compare_fallback", <<>>, <<>>))

\* self.client.responses.create(...) returns: return response.output_text
GenerationSucceeds ==
    /\ pc = "generate"
    /\ Become(HandlerFinish([Cur EXCEPT !.genCalls = @ + 1],
                            Text("generated", <<intent>>, <<>>)))

\* self.client.responses.create(...) raises
GenerationFails ==
    /\ pc = "generate"
    /\ Become(Fallback([Cur EXCEPT !.genCalls = @ + 1, !.fallbacks = @ + 1]))

\* ------------------------------------------- FinnhubClient.get_top_movers_by_industry

\* list.sort: stable, ascending by change_percent
RECURSIVE Insert(_, _)
Insert(x, sorted) ==
    IF sorted = <<>> THEN <<x>>
    ELSE IF x.change_percent < Head(sorted).change_percent THEN <<x>> \o sorted
    ELSE <<Head(sorted)>> \o Insert(x, Tail(sorted))

RECURSIVE StableSort(_)
StableSort(seq) ==
    IF seq = <<>> THEN <<>>
    ELSE Insert(seq[Len(seq)], StableSort(SubSeq(seq, 1, Len(seq) - 1)))

\* (mutant of Sorted: descending order got by reversing an ascending sort)
SortedThenReversed(seq, reverse) ==
    IF reverse THEN Reverse(StableSort(seq)) ELSE StableSort(seq)

\* sorted(valid_quotes, key=change_percent, reverse=reverse): with reverse the
\* list is reversed, sorted stably, and reversed again, which keeps equal
\* keys in their original order.
Sorted(seq, reverse) ==
    IF reverse THEN Reverse(StableSort(Reverse(seq))) ELSE StableSort(seq)

\* the entries of quotes.items() whose quote is not None
ValidQuotes(quotes) ==
    LET keep == {i \in 1..Len(quotes) : ~IsNone(quotes[i].value)}
        F[i \in 0..Len(quotes)] ==
            IF i = 0 THEN <<>>
            ELSE IF i \in keep
                 THEN Append(F[i - 1],
                             [symbol |-> quotes[i].key,
                              current_price |-> Val(quotes[i].value).current_price,
                              change_percent |-> Val(quotes[i].value).change_percent])
                 ELSE F[i - 1]
    IN F[Len(quotes)]

\* get_top_movers_by_industry, from the return of get_quote_multiple on
TopMovers(quotes, dir, lim) ==
    Take(Sorted(ValidQuotes(quotes), dir = "gainers"), lim)


\* ------------------------------------------------------ Orchestrator handlers

\* (mutant of HandleMovers: an empty mover list is formatted like any other)
HandleMoversAlwaysFormat(s) ==
    format_response([s EXCEPT !.data = MoversData(s.movers)], s.intent)

\* _handle_top_gainers / _handle_top_losers, from the return of
\* get_top_movers_by_industry on
HandleMovers(s) ==
    IF s.movers = <<>>
    THEN ReturnEnvelope(s,
             QueryResponse(Text("no_movers",
                                <<IF s.intent = "top_gainers" THEN "gainers"
                                  ELSE "losers", s.industry>>, <<>>),
                           <<>>, None))
    ELSE format_response([s EXCEPT !.data = MoversData(s.movers)], s.intent)

\* get_top_movers_by_industry returns to the handler, or to the caller
MoversReturn(s) ==
    IF s.entry = "get_top_movers_by_industry" THEN Return(s) ELSE HandleMovers(s)

\* comparison_data of _handle_compare: one entry per present quote, with the
\* profile's name and market cap when the quote's key is a key of profiles
ComparisonData(quotes, profs) ==
    LET F[i \in 0..Len(quotes)] ==
            IF i = 0 THEN <<>>
            ELSE IF IsNone(quotes[i].value) THEN F[i - 1]
            ELSE DictSet(F[i - 1], quotes[i].key,
                         [current_price |-> Val(quotes[i].value).current_price,
                          change_percent |-> Val(quotes[i].value).change_percent,
                          name |-> IF DictHas(profs, quotes[i].key)
                                   THEN Some(Val(DictVal(profs, quotes[i].key)).name)
                                   ELSE None])
    IN F[Len(quotes)]

\* (mutant of CompareProfileLoop: the loop runs over every parsed symbol)
CompareProfileLoopAll(s) ==
    IF s.pidx <= Len(s.symbols)
    THEN StartCall(s, "company_profile2", s.symbols[s.pidx], "_handle_compare")
    ELSE format_response(
             [s EXCEPT !.data = CompareData(ComparisonData(s.results, s.profiles))],
             "compare")

\* (mutant of CompareProfileLoop: no profile is fetched after a partial batch)
CompareProfileLoopSkipPartial(s) ==
    IF s.pidx <= Len(Take(s.symbols, 2)) /\ Len(s.results) >= 2
    THEN StartCall(s, "company_profile2", s.symbols[s.pidx], "_handle_compare")
    ELSE format_response(
             [s EXCEPT !.data = CompareData(ComparisonData(s.results, s.profiles))],
             "compare")

\* _handle_compare: the profile loop over symbols, then the comparison
CompareProfileLoop(s) ==
    IF s.pidx <= Len(Take(s.symbols, 2))
    THEN StartCall(s, "company_profile2", s.symbols[s.pidx], "_handle_compare")
    ELSE format_response(
             [s EXCEPT !.data = CompareData(ComparisonData(s.results, s.profiles))],
             "compare")

\* -------------------------------------------------- FinnhubClient.get_quote_multiple

\* get_quote_multiple returns results to whoever called it
BatchReturn(s) ==
    CASE s.entry = "get_quote_multiple" -> Return(s)
      [] s.entry = "process_query" /\ s.intent = "compare" ->
            CompareProfileLoop([s EXCEPT !.pidx = 1, !.profiles = <<>>])
      [] OTHER ->
            MoversReturn([s EXCEPT !.movers =
                              TopMovers(s.results, s.direction, s.limit)])

\* for symbol in symbols: ... self.get_quote(symbol)
BatchLoop(s) ==
    IF s.idx <= Len(s.batch)
    THEN StartCall(s, "quote", s.batch[s.idx], "get_quote_multiple")
    ELSE BatchReturn(s)

get_quote_multiple(s, syms) ==
    BatchLoop([s EXCEPT !.batch = syms, !.idx = 1, !.results = <<>>])

\* (mutant of BatchStep: a rate-limited symbol is recorded as absent and the
\* loop goes on)
BatchStepSkip(s) ==
    BatchLoop(EndCall([s EXCEPT
        !.results = DictSet(@, Upper(s.batch[s.idx]), s.ret.value),
        !.idx = @ + 1]))

\* (mutant of BatchStep: the RateLimitError leaves get_quote_multiple)
BatchStepRaise(s) ==
    IF s.ret.raised
    THEN Raise(EndCall(s), "RateLimitError")
    ELSE BatchLoop(EndCall([s EXCEPT
             !.results = DictSet(@, Upper(s.batch[s.idx]), s.ret.value),
             !.idx = @ + 1]))

\* get_quote returned or raised inside the loop of get_quote_multiple
BatchStep(s) ==
    IF s.ret.raised
    THEN BatchReturn(EndCall(s))                       \* except RateLimitError: break
    ELSE BatchLoop(EndCall([s EXCEPT
             !.results = DictSet(@, Upper(s.batch[s.idx]), s.ret.value),
             !.idx = @ + 1]))

ResumeBatch ==
    /\ pc = "ret"
    /\ site = "get_quote_multiple"
    /\ Become(BatchStep(Cur))

\* get_top_movers_by_industry(industry, direction, limit), up to its first fetch
get_top_movers_by_industry(s, ind, dir, lim) ==
    LET t == [s EXCEPT !.industry = ind, !.direction = dir, !.limit = lim,
                       !.movers = <<>>]
    IN IF IndustryLookup(ind) = <<>>
       THEN MoversReturn(t)                            \* if not symbols: return []
       ELSE get_quote_multiple(t, IndustryLookup(ind))

\* (mutant of HandleQuoteStep: a RateLimitError is answered like an absent quote)
HandleQuoteStepSoft(s) ==
    IF s.ret.raised
    THEN ReturnEnvelope(EndCall(s),
             QueryResponse(Text("no_data", <<s.symbols[1]>>, <<>>),
                           <<s.symbols[1]>>, None))
    ELSE IF s.api = "quote"
    THEN StartCall(EndCall([s EXCEPT !.quote = s.ret.value]),
                   "company_profile2", s.symbols[1], "_handle_quote")
    ELSE LET t == EndCall([s EXCEPT !.profile = s.ret.value])
         IN IF IsNone(t.quote)
            THEN ReturnEnvelope(t, QueryResponse(Text("no_data", <<t.symbols[1]>>, <<>>),
                                                 <<t.symbols[1]>>, None))
            ELSE format_response(
                     [t EXCEPT !.data = QuoteData(t.symbols[1], t.quote, t.profile)],
                     "quote")

\* (mutant of HandleQuoteStep: the RateLimitError is wrapped in another error)
HandleQuoteStepWrapped(s) ==
    IF s.ret.raised THEN Raise(EndCall(s), "RuntimeError")
    ELSE IF s.api = "quote"
    THEN StartCall(EndCall([s EXCEPT !.quote = s.ret.value]),
                   "company_profile2", s.symbols[1], "_handle_quote")
    ELSE LET t == EndCall([s EXCEPT !.profile = s.ret.value])
         IN IF IsNone(t.quote)
            THEN ReturnEnvelope(t, QueryResponse(Text("no_data", <<t.symbols[1]>>, <<>>),
                                                 <<t.symbols[1]>>, None))
            ELSE format_response(
                     [t EXCEPT !.data = QuoteData(t.symbols[1], t.quote, t.profile)],
                     "quote")

\* (mutant of HandleQuoteStep: the quote is tested before the profile fetch)
HandleQuoteStepEarlyCheck(s) ==
    IF s.ret.raised THEN Raise(EndCall(s), "RateLimitError")
    ELSE IF s.api = "quote"
    THEN IF IsNone(s.ret.value)
         THEN ReturnEnvelope(EndCall(s),
                  QueryResponse(Text("no_data", <<s.symbols[1]>>, <<>>),
                                <<s.symbols[1]>>, None))
         ELSE StartCall(EndCall([s EXCEPT !.quote = s.ret.value]),
                        "company_profile2", s.symbols[1], "_handle_quote")
    ELSE LET t == EndCall([s EXCEPT !.profile = s.ret.value])
         IN format_response(
                [t EXCEPT !.data = QuoteData(t.symbols[1], t.quote, t.profile)],
                "quote")

\* _handle_quote: get_quote, then get_company_profile, then the answer
HandleQuoteStep(s) ==
    IF s.ret.raised THEN Raise(EndCall(s), "RateLimitError")
    ELSE IF s.api = "quote"
    THEN StartCall(EndCall([s EXCEPT !.quote = s.ret.value]),
                   "company_profile2", s.symbols[1], "_handle_quote")
    ELSE LET t == EndCall([s EXCEPT !.profile = s.ret.value])
         IN IF IsNone(t.quote)
            THEN ReturnEnvelope(t, QueryResponse(Text("no_data", <<t.symbols[1]>>, <<>>),
                                                 <<t.symbols[1]>>, None))
            ELSE format_response(
                     [t EXCEPT !.data = QuoteData(t.symbols[1], t.quote, t.profile)],
                     "quote")

ResumeHandleQuote ==
    /\ pc = "ret"
    /\ site = "_handle_quote"
    /\ Become(HandleQuoteStep(Cur))

\* _handle_compare: get_company_profile returned or raised inside the loop
HandleCompareStep(s) ==
    IF s.ret.raised THEN Raise(EndCall(s), "RateLimitError")
    ELSE CompareProfileLoop(EndCall([s EXCEPT
             !.profiles = IF IsNone(s.ret.value) THEN @
                          ELSE DictSet(@, s.symbols[s.pidx], s.ret.value),
             !.pidx = @ + 1]))

ResumeHandleCompare ==
    /\ pc = "ret"
    /\ site = "_handle_compare"
    /\ Become(HandleCompareStep(Cur))

\* ------------------------------------------------------ Orchestrator.process_query

\* (mutant of process_query: a quote query without a symbol is answered with
\* the capability text)
process_query_no_symbol_unsupported(s) ==
    IF s.parsed.shape = "none"
    THEN Raise(s, "AttributeError")
    ELSE LET t == [s EXCEPT !.intent = s.parsed.intent,
                            !.symbols = s.parsed.symbols]
             ind == IF IsNone(s.parsed.industry) \/ s.parsed.industry = Some("")
                    THEN "technology" ELSE Val(s.parsed.industry)
         IN CASE t.intent = "top_gainers" ->
                     get_top_movers_by_industry(t, ind, "gainers", HANDLER_LIMIT)
              [] t.intent = "top_losers" ->
                     get_top_movers_by_industry(t, ind, "losers", HANDLER_LIMIT)
              [] t.intent = "quote" ->
                     IF t.symbols # <<>>
                     THEN StartCall(t, "quote", t.symbols[1], "_handle_quote")
                     ELSE ReturnEnvelope(t, QueryResponse(
                              Text("capabilities", <<>>, <<>>), <<>>, None))
              [] t.intent = "compare" ->
                     IF Len(t.symbols) >= 2
                     THEN get_quote_multiple(t, Take(t.symbols, 2))
                     ELSE ReturnEnvelope(t, QueryResponse(Text("need_two", <<>>, <<>>),
                                                          <<>>, None))
              [] OTHER -> format_response(t, "unsupported")

\* process_query, from the return of parse_query to the first remote call
process_query(s) ==
    IF s.parsed.shape = "none"
    THEN Raise(s, "AttributeError")                    \* None.get("intent", ...)
    ELSE LET t == [s EXCEPT !.intent = s.parsed.intent,
                            !.symbols = s.parsed.symbols]
             ind == IF IsNone(s.parsed.industry) \/ s.parsed.industry = Some("")
                    THEN "technology" ELSE Val(s.parsed.industry)
         IN CASE t.intent = "top_gainers" ->
                     get_top_movers_by_industry(t, ind, "gainers", HANDLER_LIMIT)
              [] t.intent = "top_losers" ->
                     get_top_movers_by_industry(t, ind, "losers", HANDLER_LIMIT)
              [] t.intent = "quote" ->
                     IF t.symbols # <<>>
                     THEN StartCall(t, "quote", t.symbols[1], "_handle_quote")
                     ELSE ReturnEnvelope(t, QueryResponse(Text("no_symbol", <<>>, <<>>),
                                                          <<>>, None))
              [] t.intent = "compare" ->
                     IF Len(t.symbols) >= 2
                     THEN get_quote_multiple(t, Take(t.symbols, 2))
                     ELSE ReturnEnvelope(t, QueryResponse(Text("need_two", <<>>, <<>>),
                                                          <<>>, None))
              [] OTHER -> format_response(t, "unsupported")


\* ------------------------------------------------------- OpenAIClient.parse_query

\* models.py ParsedQuery
ParsedQuery(i, ind, syms, dir) ==
    [shape |-> "model", intent |-> i, industry |-> ind, symbols |-> syms,
     direction |-> dir]

\* parse_query: the classification call returned a ParsedQuery
ParseParsed(pq) == pq
\* parse_query: the call returned, with no parsed object in the response
ParseNothing == [NoParsed EXCEPT !.shape = "none"]
\* parse_query: the call raised, and the except clause answers
ParseFallback == ParsedQuery("unsupported", None, <<>>, None)

\* The tickers and symbol lists of the model
Tickers == {"AAPL", "tsla"}
\* every list of up to two tickers, and one pair followed by extra symbols
Extras == [i \in 1..MaxSymbols |-> "MSFT"]
SymbolLists ==
    UNION {[1..n -> Tickers] : n \in 0..Min(2, MaxSymbols)}
    \cup {Take(<<"tsla", "AAPL">> \o Extras, n) : n \in 2..MaxSymbols}

\* The structured outputs the classification call may produce
ParsedQueries ==
    {ParsedQuery(i, ind, <<>>, None) :
        i \in {"top_gainers", "top_losers"}, ind \in {None, Some("energy")}}
    \cup {ParsedQuery(i, None, <<>>, Some("losers")) :
        i \in {"top_gainers", "top_losers"}}
    \cup {ParsedQuery(i, None, syms, None) :
        i \in {"quote", "compare"}, syms \in SymbolLists}
    \cup {ParsedQuery("unsupported", ind, syms, dir) :
        ind \in {None, Some("finance")}, syms \in SymbolLists,
        dir \in {None, Some("gainers")}}

\* A parser that hands back a plain mapping, which process_query reads with
\* .get(...): the only way an intent outside the Intent enum reaches the router
ParsedDicts ==
    {[shape |-> "dict", intent |-> "news", industry |-> ind, symbols |-> syms,
      direction |-> dir] :
        ind \in {None, Some("finance")}, syms \in SymbolLists,
        dir \in {None, Some("gainers")}}

CallProcessQuery ==
    /\ pc = "idle"
    /\ Become([Cur EXCEPT !.pc = "parse", !.entry = "process_query"])

ParseReturns ==
    /\ pc = "parse"
    /\ \E pq \in ParsedQueries \cup ParsedDicts :
          Become(process_query([Cur EXCEPT !.parseCalls = @ + 1,
                                           !.parseOutcome = "parsed",
                                           !.parsed = ParseParsed(pq)]))

ParseReturnsNothing ==
    /\ pc = "parse"
    /\ Become(process_query([Cur EXCEPT !.parseCalls = @ + 1,
                                        !.parseOutcome = "no_output",
                                        !.parsed = ParseNothing]))

ParseFails ==
    /\ pc = "parse"
    /\ Become(process_query([Cur EXCEPT !.parseCalls = @ + 1,
                                        !.parseOutcome = "error",
                                        !.parsed = ParseFallback]))

\* ------------------------------------------------------------ the client, called directly

CallGetQuote ==
    /\ pc = "idle"
    /\ \E t \in Tickers :
          Become(StartCall([Cur EXCEPT !.entry = "get_quote"], "quote", t, "caller"))

CallGetCompanyProfile ==
    /\ pc = "idle"
    /\ \E t \in Tickers :
          Become(StartCall([Cur EXCEPT !.entry = "get_company_profile"],
                           "company_profile2", t, "caller"))

CallGetQuoteMultiple ==
    /\ pc = "idle"
    /\ \E syms \in SymbolLists :
          Become(get_quote_multiple([Cur EXCEPT !.entry = "get_quote_multiple"], syms))

\* The (industry, direction, limit) triples the client is called with
MoversCalls ==
    {<<"technology", dir, lim>> : dir \in Directions, lim \in 0..MaxLimit}
    \cup {<<"Energy", "losers", 2>>, <<"crypto", "gainers", 3>>,
          <<"crypto", "losers", 0>>}

CallGetTopMovers ==
    /\ pc = "idle"
    /\ \E a \in MoversCalls :
          Become(get_top_movers_by_industry(
                     [Cur EXCEPT !.entry = "get_top_movers_by_industry"],
                     a[1], a[2], a[3]))

\* get_quote / get_company_profile returns or raises to the caller
ResumeCaller ==
    /\ pc = "ret"
    /\ site = "caller"
    /\ Become(IF ret.raised THEN Raise(Cur, "RateLimitError") ELSE Return(Cur))

\* --------------------------------------------------------------- specifications

Provider ==
    \/ FuncReturns
    \/ FuncRateLimited
    \/ FuncApiError
    \/ FuncConnectionError
    \/ FuncOtherError

\* One call of Orchestrator.process_query
Next ==
    \/ CallProcessQuery
    \/ ParseReturns
    \/ ParseReturnsNothing
    \/ ParseFails
    \/ Provider
    \/ ResumeBatch
    \/ ResumeHandleQuote
    \/ ResumeHandleCompare
    \/ GenerationSucceeds
    \/ GenerationFails

Spec == Init /\ [][Next]_vars

\* One call of a FinnhubClient method
NextClient ==
    \/ CallGetQuote
    \/ CallGetCompanyProfile
    \/ CallGetQuoteMultiple
    \/ CallGetTopMovers
    \/ Provider
    \/ ResumeBatch
    \/ ResumeCaller

SpecClient == Init /\ [][NextClient]_vars


\* ------------------------------------------------------------------ properties

CountOf(seq, k) == Cardinality({i \in 1..Len(seq) : seq[i] = k})

InQuery == entry = "process_query"

RaisedRateLimit == status = "raised" /\ exc = "RateLimitError"

\* the calls a handler made itself (not through get_quote_multiple) that
\* raised RateLimitError
DirectExhausted ==
    {i \in 1..Len(returns) :
        returns[i].raised /\ returns[i].site \in {"_handle_quote", "_handle_compare"}}

C2_OnlyRateLimitRaised ==
    (InQuery /\ status = "raised") => exc = "RateLimitError"

\* C3: when every attempt of a call is rate-limited, func is invoked exactly
\* MAX_RETRIES + 1 = 3 times, the sleeps are 1 s then 2 s (base x 2^attempt),
\* and RateLimitError is raised after the third attempt with no further sleep.
C3_ExhaustedRateLimit ==
    (outcomes # <<>> /\ \A i \in 1..Len(outcomes) : outcomes[i] = "rate_limit") =>
        /\ Len(outcomes) <= MAX_RETRIES + 1
        /\ sleeps = [i \in 1..Min(Len(outcomes), MAX_RETRIES) |->
                        RETRY_DELAY_BASE * Pow2(i - 1)]
        /\ (Len(outcomes) < MAX_RETRIES + 1) => cwr = "running"
        /\ (Len(outcomes) = MAX_RETRIES + 1) =>
               (cwr = "RateLimitError" /\ Len(outcomes) = 3 /\ sleeps = <<1, 2>>
                /\ ret.raised)

C3_Witness ==
    /\ pc = "ret" /\ cwr = "RateLimitError"
    /\ outcomes = <<"rate_limit", "rate_limit", "rate_limit">>

\* C4: _call_with_retry raises RateLimitError only if func gave a rate-limit
\* signal on MAX_RETRIES + 1 = 3 attempts.
C4_RateLimitErrorOnlyAfterThreeSignals ==
    cwr = "RateLimitError" => CountOf(outcomes, "rate_limit") = MAX_RETRIES + 1

\* C5: within one call a connection/timeout error is retried at most once, and
\* the retry is preceded by a sleep of exactly the base delay.
C5_ConnectionRetriedOnce ==
    LET retried == {i \in 1..Len(outcomes) :
                       /\ outcomes[i] = "connection"
                       /\ (i < Len(outcomes) \/ cwr = "running")}
    IN /\ Cardinality(retried) <= 1
       /\ \A i \in retried : sleeps[i] = RETRY_DELAY_BASE

\* C6: get_quote_multiple never raises; when the fetch of symbol m+1 exhausts
\* its rate-limit retries it returns exactly the entries of the first m
\* symbols, each mapped to what its fetch returned, and nothing for a symbol
\* that was not among those m.
C6_PartialBatch ==
    (entry = "get_quote_multiple" /\ pc = "done") =>
        LET fetched == {i \in 1..Len(returns) : ~returns[i].raised}
            m == Cardinality(fetched)
        IN /\ status = "returned"
           /\ fetched = 1..m
           /\ m <= Len(batch)
           /\ Len(returns) = IF m < Len(batch) THEN m + 1 ELSE m
           /\ Range(DictKeys(results)) = {Upper(batch[i]) : i \in 1..m}
           /\ Len(results) = Cardinality({Upper(batch[i]) : i \in 1..m})
           /\ \A k \in 1..Len(results) :
                 \E i \in 1..m :
                    /\ Upper(batch[i]) = results[k].key
                    /\ returns[i].value = results[k].value
                    /\ \A j \in (i + 1)..m : Upper(batch[j]) # results[k].key

C6_Witness ==
    /\ entry = "get_quote_multiple" /\ pc = "done"
    /\ Len(batch) = 3 /\ Len(returns) = 2 /\ returns[2].raised
    /\ Len(results) = 1 /\ ~IsNone(results[1].value)

\* C7: for a known industry and limit k >= 0, get_top_movers_by_industry returns
\* the first k movers of the symbols with a present quote ordered by
\* change_percent (descending for gainers, ascending for losers), equal
\* change_percent in the order of the industry's symbol list.
C7_TopMoversOrdered ==
    (entry = "get_top_movers_by_industry" /\ pc = "done"
        /\ Lower(industry) \in DOMAIN INDUSTRY_SYMBOLS) =>
        LET list == INDUSTRY_SYMBOLS[Lower(industry)]
            pos(x) == CHOOSE i \in 1..Len(list) : list[i] = x
            present == {results[i].key : i \in {j \in 1..Len(results) :
                                                   ~IsNone(results[j].value)}}
            cp(x) == Val(DictVal(results, x)).change_percent
            Before(a, b) ==
                \/ direction = "gainers" /\ cp(a) > cp(b)
                \/ direction = "losers" /\ cp(a) < cp(b)
                \/ cp(a) = cp(b) /\ pos(a) < pos(b)
            chosen == {movers[i].symbol : i \in 1..Len(movers)}
        IN /\ status = "returned"
           /\ Len(movers) <= limit
           /\ Len(movers) = Min(limit, Cardinality(present))
           /\ chosen \subseteq present
           /\ \A i \in 1..Len(movers) :
                 /\ movers[i].change_percent = cp(movers[i].symbol)
                 /\ movers[i].current_price =
                        Val(DictVal(results, movers[i].symbol)).current_price
           /\ \A i, j \in 1..Len(movers) :
                 i < j => Before(movers[i].symbol, movers[j].symbol)
           /\ \A x \in present \ chosen :
                 \A i \in 1..Len(movers) : Before(movers[i].symbol, x)

C7_Witness ==
    /\ entry = "get_top_movers_by_industry" /\ pc = "done"
    /\ direction = "gainers" /\ limit = 2 /\ Len(movers) = 2
    /\ Len(results) = 3 /\ \A i \in 1..3 : ~IsNone(results[i].value)
    /\ movers[1].change_percent = movers[2].change_percent
    /\ Val(results[1].value).change_percent < movers[1].change_percent

\* C8: for the movers, quote and compare strategies with the payload the
\* Orchestrator passes, a failing generation call makes format_response return
\* a non-empty fallback text and never raise; the fallback formatter is not
\* used when the generation call succeeds.
C8_FallbackNeverRaises ==
    (InQuery /\ pc = "done" /\ genCalls > 0) =>
        IF fallbacks > 0
        THEN /\ status = "returned"
             /\ envelope.response.kind \in
                    {"movers_fallback", "quote_fallback", "compare_fallback"}
        ELSE /\ status = "returned"
             /\ envelope.response.kind = "generated"

\* C9: parse_query makes a single classification attempt, never raises, and
\* always returns a ParsedQuery with one of the five intents; on any failure of
\* the classification call the intent is Unsupported.
C9_ParseAlwaysParsedQuery ==
    (parseCalls > 0) =>
        /\ parseCalls = 1
        /\ parsed.shape = "model"
        /\ parsed.intent \in Intents
        /\ (parseOutcome # "parsed") => parsed.intent = "unsupported"

\* C10: get_quote and get_company_profile raise only RateLimitError; for an
\* empty or null payload, a null or zero current price, a missing name, a
\* payload that fails validation, or any other exception of the provider call
\* they return None.
C10_SoftFail ==
    (pc = "ret") =>
        /\ ret.raised <=> cwr = "RateLimitError"
        /\ ret.raised => IsNone(ret.value)
        /\ cwr \in {"reraised", "fallthrough"} => IsNone(ret.value)
        /\ (cwr = "returned" /\ payload \in {Null, EmptyDict}) => IsNone(ret.value)
        /\ (cwr = "returned" /\ payload.t = "dict" /\ api = "quote"
               /\ (\/ "c" \notin DOMAIN payload.d
                   \/ payload.d["c"] \in {Null, Num(0)}
                   \/ ("dp" \in DOMAIN payload.d /\ payload.d["dp"].t # "num")))
              => IsNone(ret.value)
        /\ (cwr = "returned" /\ payload.t = "dict" /\ api = "company_profile2"
               /\ (\/ "name" \notin DOMAIN payload.d
                   \/ payload.d["name"] \in {Null, Str("")}
                   \/ ("marketCapitalization" \in DOMAIN payload.d
                       /\ payload.d["marketCapitalization"].t \notin {"num", "null"})))
              => IsNone(ret.value)

C10_Witness ==
    /\ pc = "ret" /\ api = "quote" /\ cwr = "returned"
    /\ payload = Dict(("c" :> Num(0)) @@ ("dp" :> Num(0)))
    /\ ~ret.raised /\ IsNone(ret.value)

\* the get_quote / get_company_profile calls made so far, by provider function
FetchesOf(fn) == {i \in 1..Len(fetches) : fetches[i][1] = fn}
FetchedSymbols == {fetches[i][2] : i \in 1..Len(fetches)}

\* C11: for intent quote with a symbol, when the quote fetch of symbols[0]
\* exhausts its rate-limit retries, process_query raises that RateLimitError
\* itself: no envelope, no other exception, no further fetch, no generation call.
C11_QuoteRateLimitPropagates ==
    (InQuery /\ intent = "quote" /\ returns # <<>> /\ returns[1].raised) =>
        /\ returns[1].fn = "quote" /\ returns[1].sym = Upper(symbols[1])
        /\ Len(fetches) = 1 /\ Len(returns) = 1
        /\ genCalls = 0 /\ envelope = NoEnvelope
        /\ pc \in {"ret", "done"}
        /\ (pc = "done") => RaisedRateLimit

C11_Witness ==
    /\ InQuery /\ intent = "quote" /\ symbols = <<"tsla">>
    /\ Len(returns) = 1 /\ returns[1].raised /\ pc = "done" /\ RaisedRateLimit

\* C12: a top_gainers / top_losers query asks for the movers of the parsed
\* industry, technology when there is none, with limit 3; an empty mover list
\* gives the fixed "couldn't find any gainers/losers" text with no symbols, no
\* movers field and no generation call; otherwise a returned envelope carries
\* the movers' tickers in ranked order and the mover list itself.
C12_MoversHandler ==
    (InQuery /\ intent \in {"top_gainers", "top_losers"}) =>
        /\ limit = HANDLER_LIMIT
        /\ direction = (IF intent = "top_gainers" THEN "gainers" ELSE "losers")
        /\ industry = (IF IsNone(parsed.industry) THEN "technology"
                       ELSE Val(parsed.industry))
        /\ (pc = "done" /\ movers = <<>>) =>
               /\ status = "returned" /\ genCalls = 0
               /\ envelope = QueryResponse(
                      Text("no_movers",
                           <<IF intent = "top_gainers" THEN "gainers" ELSE "losers",
                             industry>>, <<>>),
                      <<>>, None)
        /\ (pc = "done" /\ movers # <<>>) =>
               /\ movers = TopMovers(results, direction, HANDLER_LIMIT)
               /\ genCalls = 1
               /\ status = "returned" =>
                      /\ envelope.symbols =
                             [i \in 1..Len(movers) |-> movers[i].symbol]
                      /\ envelope.top_gainers = Some(movers)
                      /\ envelope.response.kind = "generated"
        /\ (pc = "generate") => movers # <<>>

C12_Witness ==
    /\ InQuery /\ intent = "top_losers" /\ pc = "done" /\ status = "returned"
    /\ IsNone(parsed.industry) /\ industry = "technology"
    /\ Len(movers) = 2 /\ movers[1].change_percent < movers[2].change_percent
    /\ envelope.symbols = <<movers[1].symbol, movers[2].symbol>>

\* C13: for intent quote with a symbol, process_query fetches the quote of
\* symbols[0] exactly once and fetches for no other symbol; a returned envelope
\* names exactly [symbols[0]]; with the quote absent the text is the fixed
\* "couldn't fetch data for SYMBOL" and no generation call is made, otherwise
\* the text is what the composer gave for that quote.
C13_QuoteHandler ==
    (InQuery /\ intent = "quote" /\ symbols # <<>>) =>
        /\ Cardinality(FetchesOf("quote")) = 1
        /\ fetches[1] = <<"quote", Upper(symbols[1])>>
        /\ FetchedSymbols = {Upper(symbols[1])}
        /\ Len(fetches) <= 2
        /\ (pc = "generate") => (~IsNone(quote) /\ data.symbol = symbols[1]
                                  /\ data.quote = quote)
        /\ (pc = "done" /\ status = "returned") =>
               /\ envelope.symbols = <<symbols[1]>>
               /\ IsNone(envelope.top_gainers)
               /\ Len(fetches) = 2
               /\ IF IsNone(quote)
                  THEN /\ envelope.response = Text("no_data", <<symbols[1]>>, <<>>)
                       /\ genCalls = 0
                  ELSE /\ genCalls = 1
                       /\ envelope.response \in
                              {Text("generated", <<"quote">>, <<>>),
                               Text("quote_fallback", <<symbols[1]>>,
                                    <<Val(quote).current_price,
                                      Val(quote).change_percent>>)}
        /\ (pc = "done" /\ IsNone(quote)) => genCalls = 0

C13_Witness ==
    /\ InQuery /\ intent = "quote" /\ symbols = <<"tsla", "AAPL">>
    /\ pc = "done" /\ status = "returned" /\ ~IsNone(quote)
    /\ envelope.symbols = <<"tsla">> /\ envelope.response.kind = "generated"
    /\ fetches = <<<<"quote", "TSLA">>, <<"company_profile2", "TSLA">>>>

\* C14: for intent compare with fewer than two symbols, process_query returns
\* the fixed "specify at least two stocks" envelope with no symbols and makes
\* no provider call and no generation call; with two or more, fetches are made
\* for symbols[0] and symbols[1] only and a returned envelope names exactly
\* those two.
C14_CompareHandler ==
    (InQuery /\ intent = "compare") =>
        IF Len(symbols) < 2
        THEN /\ pc = "done" /\ status = "returned"
             /\ envelope = QueryResponse(Text("need_two", <<>>, <<>>), <<>>, None)
             /\ fetches = <<>> /\ outcomes = <<>> /\ genCalls = 0
        ELSE /\ FetchedSymbols \subseteq {Upper(symbols[1]), Upper(symbols[2])}
             /\ batch = <<symbols[1], symbols[2]>>
             /\ Len(fetches) <= 4
             /\ (pc = "done" /\ status = "returned") =>
                    /\ envelope.symbols = <<symbols[1], symbols[2]>>
                    /\ IsNone(envelope.top_gainers)

C14_Witness ==
    /\ InQuery /\ intent = "compare" /\ Len(symbols) = 3 /\ symbols[3] = "MSFT"
    /\ pc = "done" /\ status = "returned" /\ Len(fetches) = 4
    /\ envelope.symbols = <<"tsla", "AAPL">>
    /\ envelope.response.kind = "generated"

C14_WitnessTooFew ==
    /\ InQuery /\ intent = "compare" /\ Len(symbols) = 1 /\ pc = "done"

\* C15: for intent quote with no symbol, process_query returns the fixed
\* "couldn't identify a stock symbol" text with no symbols and makes no
\* provider call and no generation call.
C15_QuoteWithoutSymbol ==
    (InQuery /\ parsed.shape = "model" /\ parsed.intent = "quote"
        /\ parsed.symbols = <<>>) =>
        /\ pc = "done" /\ status = "returned"
        /\ envelope = QueryResponse(Text("no_symbol", <<>>, <<>>), <<>>, None)
        /\ fetches = <<>> /\ outcomes = <<>> /\ genCalls = 0

C15_Witness ==
    /\ InQuery /\ intent = "quote" /\ symbols = <<>> /\ pc = "done"
    /\ envelope.response.kind = "no_symbol"

\* C16: for intent unsupported, and for an intent that is none of top_gainers,
\* top_losers, quote and compare, process_query returns the fixed capability
\* text with no symbols and no movers, whatever industry, symbols and
\* direction were parsed, and makes no provider call and no generation call.
C16_UnsupportedFixedText ==
    (InQuery /\ parsed.shape \in {"model", "dict"}
        /\ parsed.intent \notin {"top_gainers", "top_losers", "quote", "compare"}) =>
        /\ pc = "done" /\ status = "returned"
        /\ envelope = QueryResponse(Text("capabilities", <<>>, <<>>), <<>>, None)
        /\ fetches = <<>> /\ outcomes = <<>> /\ genCalls = 0 /\ fallbacks = 0

C16_Witness ==
    /\ InQuery /\ pc = "done" /\ parsed.intent = "news"
    /\ parsed.symbols = <<"tsla", "AAPL">> /\ parsed.industry = Some("finance")
    /\ parsed.direction = Some("gainers")
    /\ envelope.response.kind = "capabilities"

C16_WitnessUnsupported ==
    /\ InQuery /\ pc = "done" /\ parseOutcome = "parsed"
    /\ parsed.intent = "unsupported" /\ parsed.symbols = <<"AAPL">>
    /\ envelope.response.kind = "capabilities"

\* C17: for an industry that is no key of INDUSTRY_SYMBOLS, compared in lower
\* case, get_top_movers_by_industry returns the empty list for every direction
\* and limit, raises nothing and makes no provider call.
C17_UnknownIndustryEmpty ==
    (entry = "get_top_movers_by_industry"
        /\ Lower(industry) \notin DOMAIN INDUSTRY_SYMBOLS) =>
        /\ pc = "done" /\ status = "returned" /\ movers = <<>>
        /\ fetches = <<>> /\ outcomes = <<>> /\ batch = <<>> /\ slept = 0

C17_Witness ==
    /\ entry = "get_top_movers_by_industry" /\ industry = "crypto"
    /\ direction = "gainers" /\ limit = 3 /\ pc = "done" /\ movers = <<>>

\* C18 as stated: the time slept in retry backoff during one process_query call
\* is at most RETRY_DELAY_BASE * (2^MAX_RETRIES - 1) = 3 s.
C18_QuerySleepBounded ==
    InQuery => slept <= RETRY_DELAY_BASE * (Pow2(MAX_RETRIES) - 1)

\* C18 amended: the bound of 3 s holds for each get_quote / get_company_profile
\* call, not for the query: one process_query call sleeps at most 3 s times the
\* number of fetches it makes.
C18_SleepBoundedPerFetch ==
    InQuery =>
        /\ Sum(sleeps) <= RETRY_DELAY_BASE * (Pow2(MAX_RETRIES) - 1)
        /\ slept <= RETRY_DELAY_BASE * (Pow2(MAX_RETRIES) - 1) * Len(fetches)

C18_Witness ==
    /\ InQuery /\ intent = "quote" /\ Len(fetches) = 2
    /\ sleeps = <<1, 2>> /\ slept = 6

\* C19: in _call_with_retry an error that is neither a rate-limit signal nor a
\* connection/timeout error ends the call on the attempt where it occurs: it
\* is re-raised with no sleep after it and func is not invoked again, whatever
\* the attempts before it did.
C19_OtherErrorImmediate ==
    LET Other == {"api_error", "error"}
    IN /\ \A i \in 1..Len(outcomes) : outcomes[i] \in Other => i = Len(outcomes)
       /\ (outcomes # <<>> /\ outcomes[Len(outcomes)] \in Other) =>
              /\ cwr = "reraised"
              /\ Len(sleeps) = Len(outcomes) - 1
              /\ \A i \in 1..Len(sleeps) :
                     sleeps[i] = IF outcomes[i] = "rate_limit"
                                 THEN RETRY_DELAY_BASE * Pow2(i - 1)
                                 ELSE RETRY_DELAY_BASE
              /\ pc \in {"ret", "done"} /\ ~ret.raised /\ IsNone(ret.value)

C19_Witness ==
    /\ outcomes = <<"rate_limit", "connection", "error">>
    /\ cwr = "reraised" /\ sleeps = <<1, 1>>

\* C20: whatever the outcomes, _call_with_retry invokes func at most
\* MAX_RETRIES + 1 = 3 times and ends by returning func's result or raising
\* from inside the loop; the raise after the loop is never reached.
C20_LoopNeverFallsThrough ==
    /\ Len(outcomes) <= MAX_RETRIES + 1
    /\ attempt <= MAX_RETRIES
    /\ cwr # "fallthrough"
    /\ (Len(outcomes) = MAX_RETRIES + 1) =>
           cwr \in {"returned", "RateLimitError", "reraised"}
    /\ (cwr = "running") => (Len(outcomes) = attempt /\ pc = "call")
    /\ (cwr = "returned") => outcomes[Len(outcomes)] = "ok"

C20_Witness ==
    /\ outcomes = <<"connection", "rate_limit", "connection">>
    /\ cwr = "reraised" /\ pc = "ret"

\* the batch fetches that returned, and the position of the one that raised
BatchFetched ==
    {i \in 1..Len(returns) :
        returns[i].site = "get_quote_multiple" /\ ~returns[i].raised}
BatchExhausted ==
    {i \in 1..Len(returns) :
        returns[i].site = "get_quote_multiple" /\ returns[i].raised}

\* C21: in get_quote_multiple, and so in get_top_movers_by_industry, once the
\* fetch of a symbol has exhausted its rate-limit retries no quote is fetched
\* for a later symbol of the batch; the movers are ranked over the prefix
\* fetched before it, and get_top_movers_by_industry raises nothing.
C21_BatchStopsAtRateLimit ==
    (entry \in {"get_quote_multiple", "get_top_movers_by_industry"}) =>
        /\ \A i \in BatchExhausted : i = Len(returns) /\ Len(fetches) = i
        /\ \A i \in 1..Len(fetches) : fetches[i] = <<"quote", Upper(batch[i])>>
        /\ status # "raised"
        /\ (pc = "done" /\ BatchExhausted # {}) =>
               /\ Range(DictKeys(results)) =
                      {Upper(batch[j]) : j \in BatchFetched}
               /\ Len(fetches) = Cardinality(BatchFetched) + 1
        /\ (pc = "done" /\ entry = "get_top_movers_by_industry") =>
               /\ status = "returned"
               /\ DictKeys(results) = Take(batch, Cardinality(BatchFetched))
               /\ movers = TopMovers(results, direction, limit)
               /\ \A i \in 1..Len(movers) :
                      \E j \in BatchFetched : movers[i].symbol = batch[j]

C21_Witness ==
    /\ entry = "get_top_movers_by_industry" /\ pc = "done"
    /\ Len(batch) = 3 /\ Len(fetches) = 2 /\ BatchExhausted = {2}
    /\ Len(movers) = 1 /\ movers[1].symbol = batch[1]

\* C22: the quote handler calls get_quote and then get_company_profile for the
\* symbol, once each and in that order, before it tests the quote: the profile
\* is fetched also when the quote is absent, and when that profile fetch
\* exhausts its rate-limit retries process_query raises RateLimitError and
\* returns no "couldn't fetch data" envelope.
C22_ProfileFetchedBeforeQuoteTest ==
    (InQuery /\ intent = "quote" /\ symbols # <<>>) =>
        LET both == <<<<"quote", Upper(symbols[1])>>,
                      <<"company_profile2", Upper(symbols[1])>>>>
        IN /\ fetches \in {Take(both, 1), both}
           /\ (returns # <<>> /\ ~returns[1].raised
                  /\ ~(pc = "ret" /\ Len(returns) = 1)) => fetches = both
           /\ (pc = "generate" \/ (pc = "done" /\ status = "returned")) =>
                  /\ fetches = both /\ Len(returns) = 2
                  /\ ~returns[1].raised /\ ~returns[2].raised
                  /\ quote = returns[1].value /\ profile = returns[2].value
           /\ (pc = "done" /\ Len(returns) = 2 /\ returns[2].raised) =>
                  /\ RaisedRateLimit /\ envelope = NoEnvelope /\ genCalls = 0

C22_Witness ==
    /\ InQuery /\ intent = "quote" /\ symbols # <<>> /\ pc = "done"
    /\ Len(returns) = 2 /\ ~returns[1].raised /\ IsNone(returns[1].value)
    /\ returns[2].fn = "company_profile2" /\ returns[2].raised
    /\ RaisedRateLimit

\* C23: in the compare handler a rate-limit exhaustion inside the two-symbol
\* quote batch does not end the request: get_company_profile is then called
\* for the two symbols in order; process_query raises RateLimitError only when
\* one of these profile calls is exhausted, and otherwise returns an envelope
\* naming the two requested tickers although fewer than two quotes were fetched.
C23_CompareSurvivesBatchRateLimit ==
    (InQuery /\ intent = "compare" /\ Len(symbols) >= 2 /\ BatchExhausted # {}) =>
        LET b == CHOOSE i \in BatchExhausted : TRUE
            profs == SubSeq(fetches, b + 1, Len(fetches))
            want == <<<<"company_profile2", Upper(symbols[1])>>,
                      <<"company_profile2", Upper(symbols[2])>>>>
        IN /\ BatchExhausted = {b} /\ b \in 1..2
           /\ Len(results) = b - 1 /\ Len(results) < 2
           /\ profs \in {Take(want, n) : n \in 0..2}
           /\ (pc = "done") =>
                  /\ profs # <<>>
                  /\ (status = "raised") <=> (DirectExhausted # {})
                  /\ (status = "raised") => RaisedRateLimit
                  /\ (status = "returned") =>
                         /\ profs = want
                         /\ envelope.symbols = <<symbols[1], symbols[2]>>
                         /\ envelope.response =
                                Text("compare_unavailable", <<>>, <<>>)
                         /\ genCalls = 0

C23_Witness ==
    /\ InQuery /\ intent = "compare" /\ pc = "done" /\ status = "returned"
    /\ BatchExhausted = {2} /\ Len(results) = 1 /\ ~IsNone(results[1].value)
    /\ Len(fetches) = 4 /\ Len(profiles) = 2
    /\ envelope.symbols = <<"tsla", "AAPL">>

====
